---- MODULE Spec2Model ----
(***************************************************************************)
(* Model of the chat graph of graph-chat-demo: the /stream_chat and        *)
(* /create_session handlers of main.py, and the five nodes, the router and *)
(* the edges of agent_builder.create_chat_agent, run over a checkpoint     *)
(* store keyed by thread identifier.                                       *)
(*                                                                         *)
(* Strings that the code splits or concatenates (header values, thread     *)
(* identifiers) are sequences of one-character strings.  Message contents  *)
(* are TLA+ strings.                                                       *)
(***************************************************************************)
EXTENDS Integers, Sequences, FiniteSets, TLC

VARIABLES
    sessions,   \* session_collection: the documents inserted by create_session
    store,      \* the checkpointer: thread identifier -> latest checkpoint
    runs,       \* the turns accepted by /stream_chat, in order of acceptance
    kills       \* how many times the process was killed

vars == <<sessions, store, runs, kills>>

----------------------------------------------------------------------------
(* Bounds of the model *)

MaxTurns    == 2    \* /stream_chat requests accepted
MaxCalls    == 2    \* tool-call requests on one assistant message
MaxRounds   == 1    \* tool rounds the model gateway asks for in one turn
MaxSessions == 1    \* /create_session requests handled
MaxKills    == 1    \* process kills

----------------------------------------------------------------------------
(* Strings as sequences of characters *)

Dash == "-"

\* the index of the first Dash of s, or 0
RECURSIVE FirstDash(_, _)
FirstDash(s, i) ==
    IF i > Len(s) THEN 0
    ELSE IF s[i] = Dash THEN i
    ELSE FirstDash(s, i + 1)

\* str.split("-")
RECURSIVE Split(_)
Split(s) ==
    LET i == FirstDash(s, 1) IN
    IF i = 0 THEN <<s>>
    ELSE <<SubSeq(s, 1, i - 1)>> \o Split(SubSeq(s, i + 1, Len(s)))

\* f"{user_id}-{sess_id}"
ThreadId(user_id, sess_id) == user_id \o <<Dash>> \o sess_id

\* the display name: the two characters U+7528 U+6237, then the user id
UserName(user_id) == <<"U+7528", "U+6237">> \o user_id

\* str(uuid4()): five groups of hexadecimal digits joined by '-'
\* (one digit stands for each group)
Uuid4Strings == { <<h, Dash, h, Dash, "4", Dash, h, Dash, h>> : h \in {"e"} }

\* the values a client sends in the x-user and x-sess headers; <<>> is an
\* absent or empty header (request.headers.get gives None or "")
UserHeaders == { <<>>, <<"a">>, <<"a", Dash, "b">> }
SessHeaders == { <<>>, <<"b">>, <<"c">>, <<"b", Dash, "c">> }

\* the headers of one well-behaved client: one user, two of its sessions
PlainUserHeaders == { <<>>, <<"a">> }
PlainSessHeaders == { <<>>, <<"b">>, <<"c">> }

\* the values of the message form field
LongText  == "LONG"
UserTexts == { "", "what is 12 * 7?", LongText }

\* len(content): LongText stands for a text of LongChars characters
LongChars == 4 * 128 * 1000
CharLen(text) == IF text = LongText THEN LongChars ELSE Len(text)

----------------------------------------------------------------------------
(* Messages and the add_messages reducer *)

NoId == <<>>

HumanMessage(id, content) ==
    [type |-> "human", id |-> id, content |-> content,
     tool_calls |-> <<>>, tool_call_id |-> NoId]

AIMessage(id, content, tool_calls) ==
    [type |-> "ai", id |-> id, content |-> content,
     tool_calls |-> tool_calls, tool_call_id |-> NoId]

ToolMessage(id, content, tool_call_id) ==
    [type |-> "tool", id |-> id, content |-> content,
     tool_calls |-> <<>>, tool_call_id |-> tool_call_id]

RECURSIVE SelectSeq2(_, _)
\* the messages of msgs whose id is not in ids, in order
SelectSeq2(msgs, ids) ==
    IF msgs = <<>> THEN <<>>
    ELSE IF Head(msgs).id \in ids THEN SelectSeq2(Tail(msgs), ids)
    ELSE <<Head(msgs)>> \o SelectSeq2(Tail(msgs), ids)

\* add_messages(left, right) where right is removals (RemoveMessage ids)
\* and appended messages: removals are by id, appends go to the end
AddMessages(left, removals, appends) ==
    SelectSeq2(left, { removals[i] : i \in DOMAIN removals }) \o appends

\* the state of a thread that has no checkpoint yet
EmptyValues ==
    [messages |-> <<>>, current_user_id |-> <<>>, current_user_name |-> <<>>,
     current_session_id |-> <<>>, current_summary |-> ""]

----------------------------------------------------------------------------
(* The tool registry *)

MathToolNames ==
    {"add", "subtract", "multiply", "divide", "power", "sqrt", "abs_val",
     "max_val", "min_val", "average"}

TimeToolNames ==
    {"now_utc", "now_local", "parse_datetime", "add_seconds", "add_minutes",
     "add_hours", "add_days", "diff_seconds", "diff_minutes", "diff_hours"}

\* tool_map = {**time_tool_map, **math_tool_map}: its keys
ToolMapKeys == TimeToolNames \cup MathToolNames

\* the result of one tool invocation: a value, or the exception raised
Returned(v) == [ok |-> TRUE,  content |-> v,  error |-> ""]
Raised(e)   == [ok |-> FALSE, content |-> "", error |-> e]

Multiply(a, b) == Returned(ToString(a * b))

\* a / b is a float: an exact quotient q prints as "q.0"
Divide(a, b) ==
    IF b = 0 THEN Raised("ValueError")
    ELSE Returned(ToString(a \div b) \o ".0")

\* tool_map[tool_call["name"]] then tool.ainvoke(tool_call["args"]), for
\* the tools the gateway of this model asks for
Invoke(name, args) ==
    IF name \notin ToolMapKeys THEN Raised("KeyError")
    ELSE CASE name = "divide"   -> Divide(args.a, args.b)
           [] name = "multiply" -> Multiply(args.a, args.b)

----------------------------------------------------------------------------
(* The model gateway: what a call of the chat model may return *)

\* the tool-call requests the model may put on an assistant message
ToolRequests ==
    { [name |-> "multiply", args |-> [a |-> 12, b |-> 7]],
      [name |-> "divide",   args |-> [a |-> 12, b |-> 0]],
      [name |-> "nosuch",   args |-> [a |-> 12, b |-> 7]] }

ToolBatches == UNION { [1..n -> ToolRequests] : n \in 1..MaxCalls }

\* responses of qwen3_8b_with_tools: a final answer, or (while the turn
\* has had fewer than MaxRounds tool rounds) a batch of tool-call requests
GenerateResponses(rounds) ==
    { [content |-> "84", requests |-> <<>>] } \cup
    IF rounds < MaxRounds
    THEN { [content |-> "", requests |-> b] : b \in ToolBatches }
    ELSE {}

\* the responses of a model that is only ever asked to multiply: the final
\* answer or one request of multiply, in any round
LoopResponses ==
    { [content |-> "84", requests |-> <<>>],
      [content |-> "",
       requests |-> <<[name |-> "multiply", args |-> [a |-> 12, b |-> 7]]>>] }

\* response.content of the summarization call of qwen3_8b
SummaryResponses == { "", "summary" }

----------------------------------------------------------------------------
(* The nodes of the graph.  A node maps the state to a partial update:    *)
(* scalars to overwrite, ids of messages to remove, messages to append.   *)

Update(scalars, removals, appends) ==
    [scalars |-> scalars, removals |-> removals, appends |-> appends,
     raised |-> ""]

NoUpdate == Update(<<>>, <<>>, <<>>)

\* a node that raised: nothing is merged
Failure(e) == [scalars |-> <<>>, removals |-> <<>>, appends |-> <<>>, raised |-> e]

\* the engine's merge of a partial update into the state (the channels of
\* AgentState: messages has the add_messages reducer, the rest overwrite)
Merge(values, upd) ==
    [f \in DOMAIN values |->
        IF f = "messages"
        THEN AddMessages(values.messages, upd.removals, upd.appends)
        ELSE IF f \in DOMAIN upd.scalars THEN upd.scalars[f]
        ELSE values[f]]

\* an index slip: the session is read from the first component
runtime_load_node_SameIndex(values, thread_id) ==
    LET user_info == Split(thread_id) IN
    Update([current_user_id    |-> user_info[1],
            current_user_name  |-> UserName(user_info[1]),
            current_session_id |-> user_info[1],
            current_summary    |-> ""],
           <<>>, <<>>)

\* the node keeping the summary of the persisted state
runtime_load_node_KeepsSummary(values, thread_id) ==
    LET user_info == Split(thread_id) IN
    Update([current_user_id    |-> user_info[1],
            current_user_name  |-> UserName(user_info[1]),
            current_session_id |-> user_info[2],
            current_summary    |-> values.current_summary],
           <<>>, <<>>)

runtime_load_node(values, thread_id) ==
    LET user_info == Split(thread_id) IN
    IF Len(user_info) < 2 THEN Failure("IndexError")
    ELSE Update([current_user_id    |-> user_info[1],
                 current_user_name  |-> UserName(user_info[1]),
                 current_session_id |-> user_info[2],
                 current_summary    |-> ""],
                <<>>, <<>>)

\* only the tool results are matched, the requests are forgotten
IsToolArtifact_ResultsOnly(m) == m.type = "tool"

IsToolArtifact(m) == m.type = "tool" \/ m.tool_calls # <<>>

RECURSIVE ArtifactIds_Skipping(_)
\* removal while iterating: the message after a removed one is skipped
ArtifactIds_Skipping(msgs) ==
    IF msgs = <<>> THEN <<>>
    ELSE IF IsToolArtifact(Head(msgs))
         THEN <<Head(msgs).id>> \o
              (IF Len(msgs) = 1 THEN <<>> ELSE ArtifactIds_Skipping(Tail(Tail(msgs))))
         ELSE ArtifactIds_Skipping(Tail(msgs))

RECURSIVE ArtifactIds(_)
\* [RemoveMessage(id=m.id) for m in messages if IsToolArtifact(m)]
ArtifactIds(msgs) ==
    IF msgs = <<>> THEN <<>>
    ELSE (IF IsToolArtifact(Head(msgs)) THEN <<Head(msgs).id>> ELSE <<>>)
         \o ArtifactIds(Tail(msgs))

delete_tool_message_node(values) ==
    Update(<<>>, ArtifactIds(values.messages), <<>>)

\* _get_message_openai_role
RoleLen(m) ==
    CASE m.type = "human" -> 4      \* "user"
      [] m.type = "ai"    -> 9      \* "assistant"
      [] m.type = "tool"  -> 4      \* "tool"

CharsPerToken == 4
ExtraTokensPerMessage == 3

CeilDiv(a, b) == (a + b - 1) \div b

RECURSIVE count_tokens_approximately(_)
\* per message: ceil((len(content) + len(role)) / 4) + 3
count_tokens_approximately(msgs) ==
    IF msgs = <<>> THEN 0
    ELSE CeilDiv(CharLen(Head(msgs).content) + RoleLen(Head(msgs)), CharsPerToken)
         + ExtraTokensPerMessage
         + count_tokens_approximately(Tail(msgs))

TokenThreshold == 128 * 1000

\* the instruction appended to the summarization prompt
SummaryInstruction(summary) == IF summary # "" THEN "extend" ELSE "create"

\* a slip of the slice: all but the most recent message, [:-1]
AllButLast2_KeepOne(msgs) == SubSeq(msgs, 1, Len(msgs) - 1)

\* a slip of the slice: everything after the first two messages, [2:]
AllButLast2_From2(msgs) == SubSeq(msgs, 3, Len(msgs))

\* state["messages"][:-2]
AllButLast2(msgs) == SubSeq(msgs, 1, Len(msgs) - 2)

\* the comparison the wrong way round: summarize below the threshold
NeedsSummary_Flipped(values) ==
    count_tokens_approximately(values.messages) < TokenThreshold

NeedsSummary(values) ==
    ~ (count_tokens_approximately(values.messages) < TokenThreshold)

\* response is the content the summarization call returned
summarize_conversation_node(values, response) ==
    IF ~ NeedsSummary(values) THEN NoUpdate
    ELSE LET old == AllButLast2(values.messages) IN
         Update([current_summary |-> response],
                [i \in DOMAIN old |-> old[i].id], <<>>)

\* the tool calls of a response, with the ids the model gives them
WithIds(requests, id) ==
    [i \in DOMAIN requests |->
        [name |-> requests[i].name, args |-> requests[i].args,
         id |-> id \o <<i>>]]

\* the node also returning the summary it read, emptied
llm_call_node_ClearsSummary(values, response, id) ==
    Update([current_summary |-> ""], <<>>,
           <<AIMessage(id, response.content, WithIds(response.requests, id))>>)

\* response is what qwen3_8b_with_tools returned; id is the message's id
llm_call_node(values, response, id) ==
    Update(<<>>, <<>>,
           <<AIMessage(id, response.content, WithIds(response.requests, id))>>)

RECURSIVE ToolLoop(_, _, _, _)
\* the for loop of tool_node from call i on: result is the list so far;
\* the first lookup or invocation that raises ends the node
ToolLoop(calls, i, result, id) ==
    IF i > Len(calls) THEN Update(<<>>, <<>>, result)
    ELSE LET observation == Invoke(calls[i].name, calls[i].args) IN
         IF ~ observation.ok THEN Failure(observation.error)
         ELSE ToolLoop(calls, i + 1,
                       Append(result, ToolMessage(id \o <<i>>, observation.content,
                                                  calls[i].id)),
                       id)

Last(seq) == seq[Len(seq)]

tool_node(values, id) ==
    ToolLoop(Last(values.messages).tool_calls, 1, <<>>, id)

\* the router looking at the first message instead of the most recent one
should_continue_First(values) ==
    IF Head(values.messages).tool_calls # <<>> THEN "tool_node" ELSE "END"

\* the router looking for tool calls on any message of the sequence
should_continue_Any(values) ==
    IF \E i \in DOMAIN values.messages : values.messages[i].tool_calls # <<>>
    THEN "tool_node" ELSE "END"

\* the conditional edge after llm_call_node
should_continue(values) ==
    IF Last(values.messages).tool_calls # <<>> THEN "tool_node" ELSE "END"

\* the edges with the prune and compact nodes wired in the other order
NextNode_Swapped(node, values) ==
    CASE node = "START"                       -> "runtime_load_node"
      [] node = "runtime_load_node"           -> "summarize_conversation_node"
      [] node = "summarize_conversation_node" -> "delete_tool_message_node"
      [] node = "delete_tool_message_node"    -> "llm_call_node"
      [] node = "llm_call_node"               -> should_continue(values)
      [] node = "tool_node"                   -> "llm_call_node"

\* the edges of the graph: the node that runs after `node` on state values
NextNode(node, values) ==
    CASE node = "START"                       -> "runtime_load_node"
      [] node = "runtime_load_node"           -> "delete_tool_message_node"
      [] node = "delete_tool_message_node"    -> "summarize_conversation_node"
      [] node = "summarize_conversation_node" -> "llm_call_node"
      [] node = "llm_call_node"               -> should_continue(values)
      [] node = "tool_node"                   -> "llm_call_node"

Nodes ==
    {"runtime_load_node", "delete_tool_message_node",
     "summarize_conversation_node", "llm_call_node", "tool_node"}

----------------------------------------------------------------------------
(* The service and the engine *)

\* a checkpoint: the state, the node that runs next, and the turn that
\* wrote it
Checkpoint(values, next, writer) ==
    [values |-> values, next |-> next, writer |-> writer]

NoCheckpoint == Checkpoint(EmptyValues, "none", 0)

\* get_tuple(thread_id): the latest checkpoint of the thread
Latest(thread_id) ==
    IF thread_id \in DOMAIN store THEN store[thread_id] ELSE NoCheckpoint

\* put(thread_id, checkpoint)
Put(thread_id, cp) ==
    [t \in DOMAIN store \cup {thread_id} |->
        IF t = thread_id THEN cp ELSE store[t]]

InFlight(k) == runs[k].pc \in Nodes

Init ==
    /\ sessions = {}
    /\ store = <<>>
    /\ runs = <<>>
    /\ kills = 0

\* POST /create_session with header x-user = user_id
CreateSession(user_id, uuid) ==
    /\ Cardinality(sessions) < MaxSessions
    /\ user_id # <<>>
    /\ sessions' = sessions \cup {[user_id |-> user_id, session_id |-> uuid]}
    /\ UNCHANGED <<store, runs, kills>>

\* the code of the response of /stream_chat to a request
ChatCode(user_id, sess_id, message) ==
    IF user_id = <<>> \/ sess_id = <<>> THEN "invalid user"
    ELSE IF message = "" THEN "invalid message"
    ELSE "stream"

\* POST /stream_chat with headers x-user, x-sess and form field message.
\* A rejected request gets a JSON error and changes nothing.
\* An accepted request starts a turn: the engine reads the thread's latest
\* checkpoint, merges the input message and persists the result, with
\* the graph's entry node next.
Chat(user_id, sess_id, message) ==
    LET code      == ChatCode(user_id, sess_id, message)
        thread_id == ThreadId(user_id, sess_id)
        k         == Len(runs) + 1
        found     == Latest(thread_id)
        values    == Merge(found.values,
                           Update(<<>>, <<>>, <<HumanMessage(<<k, 1>>, message)>>))
        entry     == NextNode("START", values)
        \* the node a checkpoint left by a killed turn has pending
        resumes   == IF found.writer # 0 /\ runs[found.writer].pc = "killed"
                     THEN found.next ELSE "none"
    IN
    /\ Len(runs) < MaxTurns
    /\ IF code = "stream"
       THEN /\ runs' = Append(runs,
                  [pc |-> entry, user_id |-> user_id, sess_id |-> sess_id,
                   thread_id |-> thread_id, input |-> message,
                   resumes |-> resumes,
                   found_summary |-> found.values.current_summary,
                   values |-> values, prev |-> found.values,
                   steps |-> <<>>, routed |-> <<>>, calls |-> <<>>, out |-> <<>>,
                   n |-> 2, rounds |-> 0, error |-> ""])
            /\ store' = Put(thread_id, Checkpoint(values, entry, k))
       ELSE UNCHANGED <<runs, store>>
    /\ UNCHANGED <<sessions, kills>>

\* The graph is run with a config that names the thread only (main.py
\* 52-56), so the engine's default recursion limit applies: a turn may
\* take this many supersteps, the entry step included.
RecursionLimit == 25

\* the supersteps turn r has taken: the entry step and one per node run
SuperSteps(r) ==
    1 + Cardinality({ i \in DOMAIN r.steps : r.steps[i] # "should_continue" })

\* one step of turn k: the node at pc runs on the turn's state and returns
\* upd; the engine merges upd, persists the state and moves to the next
\* node.  A node that raised ends the turn and nothing is merged.  A step
\* that leaves a node pending when the recursion limit is used up is merged
\* and persisted, and the engine then ends the turn with GraphRecursionError.
\* call is the model call the node made (<<>> if none); fragments are the
\* on_chat_model_stream contents the call produced.
Step(k, upd, call, used) ==
    LET r      == runs[k]
        node   == r.pc
        values == Merge(r.values, upd)
        next   == NextNode(node, values)
        frags  == IF call # <<>> /\ call[1].content # ""
                  THEN <<call[1].content>> ELSE <<>>
        out_of_steps == next # "END" /\ SuperSteps(r) + 1 >= RecursionLimit
    IN
    IF upd.raised # ""
    THEN /\ runs' = [runs EXCEPT ![k] =
                        [r EXCEPT !.pc = "failed", !.error = upd.raised,
                                  !.steps = Append(r.steps, node)]]
         /\ UNCHANGED <<store, sessions, kills>>
    ELSE /\ runs' = [runs EXCEPT ![k] =
                        [r EXCEPT !.pc = IF out_of_steps THEN "failed" ELSE next,
                                  !.error = IF out_of_steps
                                            THEN "GraphRecursionError"
                                            ELSE r.error,
                                  !.values = values,
                                  !.prev = r.values,
                                  !.steps = Append(r.steps, node) \o
                                      (IF node = "llm_call_node"
                                       THEN <<"should_continue">> ELSE <<>>),
                                  !.routed = r.routed \o
                                      (IF node = "llm_call_node"
                                       THEN <<next>> ELSE <<>>),
                                  !.calls = r.calls \o call,
                                  !.out = r.out \o frags,
                                  !.n = r.n + used,
                                  !.rounds = r.rounds
                                      + (IF node = "tool_node" THEN 1 ELSE 0)]]
         /\ store' = Put(r.thread_id, Checkpoint(values, next, k))
         /\ UNCHANGED <<sessions, kills>>

RuntimeLoad(k) ==
    /\ runs[k].pc = "runtime_load_node"
    /\ Step(k, runtime_load_node(runs[k].values, runs[k].thread_id), <<>>, 0)

DeleteToolMessage(k) ==
    /\ runs[k].pc = "delete_tool_message_node"
    /\ Step(k, delete_tool_message_node(runs[k].values), <<>>, 0)

\* below the threshold the node returns without a model call
SummarizeSkip(k) ==
    /\ runs[k].pc = "summarize_conversation_node"
    /\ ~ NeedsSummary(runs[k].values)
    /\ Step(k, summarize_conversation_node(runs[k].values, ""), <<>>, 0)

SummarizeConversation(k, response) ==
    /\ runs[k].pc = "summarize_conversation_node"
    /\ NeedsSummary(runs[k].values)
    /\ Step(k, summarize_conversation_node(runs[k].values, response),
            <<[model |-> "qwen3_8b", content |-> response,
               instruction |-> SummaryInstruction(runs[k].values.current_summary),
               summary_note |-> "",
               prompt |-> runs[k].values.messages]>>, 0)

LlmCall(k, response) ==
    /\ runs[k].pc = "llm_call_node"
    /\ Step(k, llm_call_node(runs[k].values, response, <<k, runs[k].n>>),
            <<[model |-> "qwen3_8b_with_tools", content |-> response.content,
               instruction |-> "",
               summary_note |-> runs[k].values.current_summary,
               prompt |-> runs[k].values.messages]>>, 1)

\* the model call of the node at pc raises (the gateway is unreachable,
\* answers with an error, ...): the node raises with it
ModelCallFails(k) ==
    /\ runs[k].pc \in {"summarize_conversation_node", "llm_call_node"}
    /\ runs[k].pc = "summarize_conversation_node" => NeedsSummary(runs[k].values)
    /\ Step(k, Failure("ModelGatewayError"), <<>>, 0)

ToolNode(k) ==
    /\ runs[k].pc = "tool_node"
    /\ Step(k, tool_node(runs[k].values, <<k, runs[k].n>>), <<>>, 1)

\* the process is killed: the turns in flight are gone, the checkpoint
\* store keeps what was persisted
Kill ==
    /\ kills < MaxKills
    /\ \E k \in DOMAIN runs : InFlight(k)
    /\ kills' = kills + 1
    /\ runs' = [k \in DOMAIN runs |->
                   IF InFlight(k) THEN [runs[k] EXCEPT !.pc = "killed"]
                   ELSE runs[k]]
    /\ UNCHANGED <<sessions, store>>

\* The service with one well-behaved client: whole turns, concurrent
\* requests, process kills.
Next ==
    \/ \E u \in PlainUserHeaders, s \in PlainSessHeaders, m \in UserTexts :
          Chat(u, s, m)
    \/ \E k \in DOMAIN runs : RuntimeLoad(k)
    \/ \E k \in DOMAIN runs : DeleteToolMessage(k)
    \/ \E k \in DOMAIN runs : SummarizeSkip(k)
    \/ \E k \in DOMAIN runs, response \in SummaryResponses :
          SummarizeConversation(k, response)
    \/ \E k \in DOMAIN runs :
          \E response \in GenerateResponses(runs[k].rounds) : LlmCall(k, response)
    \/ \E k \in DOMAIN runs : ModelCallFails(k)
    \/ \E k \in DOMAIN runs : ToolNode(k)
    \/ Kill

Spec == Init /\ [][Next]_vars

\* The service with arbitrary header values and created sessions, up to the
\* step that loads the identity.
NextIdentity ==
    \/ \E u \in UserHeaders, id \in Uuid4Strings : CreateSession(u, id)
    \/ \E u \in UserHeaders,
          s \in SessHeaders \cup { d.session_id : d \in sessions },
          m \in UserTexts : Chat(u, s, m)
    \/ \E k \in DOMAIN runs : RuntimeLoad(k)

SpecIdentity == Init /\ [][NextIdentity]_vars

\* The service with one client that sends one question at a time and a
\* model that may ask for a tool in every response: nothing but the
\* engine ends the tool loop.
NextLoop ==
    \/ /\ \A k \in DOMAIN runs : ~ InFlight(k)
       /\ Chat(<<"a">>, <<"b">>, "what is 12 * 7?")
    \/ \E k \in DOMAIN runs : RuntimeLoad(k)
    \/ \E k \in DOMAIN runs : DeleteToolMessage(k)
    \/ \E k \in DOMAIN runs : SummarizeSkip(k)
    \/ \E k \in DOMAIN runs, response \in LoopResponses : LlmCall(k, response)
    \/ \E k \in DOMAIN runs : ToolNode(k)

SpecLoop == Init /\ [][NextLoop]_vars

----------------------------------------------------------------------------
(* Properties *)

Loaded(k)   == runs[k].steps # <<>>
LastStep(k) == IF runs[k].steps = <<>> THEN "none" ELSE Last(runs[k].steps)

\* the step at position i of a turn, by the order load, prune, compact and
\* then the cycle generate, route, invoke-tool
StepAt(i) ==
    CASE i = 1 -> "runtime_load_node"
      [] i = 2 -> "delete_tool_message_node"
      [] i = 3 -> "summarize_conversation_node"
      [] i > 3 /\ (i - 4) % 3 = 0 -> "llm_call_node"
      [] i > 3 /\ (i - 4) % 3 = 1 -> "should_continue"
      [] i > 3 /\ (i - 4) % 3 = 2 -> "tool_node"

\* the route decision that precedes position i (a tool_node position)
RouteBefore(k, i) == runs[k].routed[(i - 3) \div 3]

\* C1: in every turn the steps run in the order load-identity,
\* prune-tool-artifacts, compact-context, generate, route, and then only
\* the cycle invoke-tool, generate, route; invoke-tool runs only after a
\* route that selected it, nothing runs after a route that selected
\* termination, and the turn is ended exactly by such a route.
C1_StepOrder ==
    \A k \in DOMAIN runs :
        LET r == runs[k] IN
        /\ \A i \in DOMAIN r.steps : r.steps[i] = StepAt(i)
        /\ \A i \in DOMAIN r.steps :
              r.steps[i] = "tool_node" => RouteBefore(k, i) = "tool_node"
        /\ \A j \in DOMAIN r.routed : r.routed[j] = "END" => j = Len(r.routed)
        /\ (r.routed # <<>> /\ Last(r.routed) = "END")
              => (LastStep(k) = "should_continue" /\ r.pc = "END")
        /\ r.pc = "END" => (r.routed # <<>> /\ Last(r.routed) = "END")

\* a turn with one tool round has ended
C1_Witness ==
    \E k \in DOMAIN runs :
        /\ runs[k].pc = "END"
        /\ runs[k].routed = <<"tool_node", "END">>
        /\ Len(runs[k].steps) = 8

\* the tool-result messages of msgs that answer the tool call id
ResultsFor(msgs, id) ==
    { i \in DOMAIN msgs : msgs[i].type = "tool" /\ msgs[i].tool_call_id = id }

\* the tool calls of the latest assistant message of msgs
RECURSIVE LatestCalls(_)
LatestCalls(msgs) ==
    IF msgs = <<>> THEN <<>>
    ELSE IF Last(msgs).type = "ai" THEN Last(msgs).tool_calls
    ELSE LatestCalls(SubSeq(msgs, 1, Len(msgs) - 1))

\* C2: after the invoke-tool step, whether or not a tool raised, the state
\* holds exactly one tool-result message for every tool-call request of
\* the latest assistant message.
C2_JoinIntegrity ==
    \A k \in DOMAIN runs :
        LastStep(k) = "tool_node" =>
            LET msgs  == runs[k].values.messages
                calls == LatestCalls(msgs)
            IN \A i \in DOMAIN calls :
                   Cardinality(ResultsFor(msgs, calls[i].id)) = 1

\* C3: a tool call that names an unknown tool, or whose tool raises, does
\* not abort the turn: after the invoke-tool step every call of the
\* message has a tool-result message and the generate step is next.
C3_FailureIsLocal ==
    \A k \in DOMAIN runs :
        LastStep(k) = "tool_node" =>
            /\ runs[k].pc = "llm_call_node"
            /\ runs[k].error = ""
            /\ LET msgs  == runs[k].values.messages
                   calls == LatestCalls(msgs)
               IN \A i \in DOMAIN calls : ResultsFor(msgs, calls[i].id) # {}

\* C4: a turn that starts on a thread whose checkpoint was left by a
\* killed turn continues at the node that checkpoint has pending, and runs
\* no node whose update is already merged.
C4_ResumeNoReplay ==
    \A k \in DOMAIN runs :
        (runs[k].resumes \in Nodes /\ Loaded(k))
            => runs[k].steps[1] = runs[k].resumes

\* C5: two turns of the same thread are never in flight at the same time.
C5_TurnsSerialized ==
    \A j, k \in DOMAIN runs :
        (j # k /\ InFlight(j) /\ InFlight(k))
            => runs[j].thread_id # runs[k].thread_id

\* C6: distinct (user_id, session_id) pairs never get the same thread
\* identifier, and load-identity recovers the pair the identifier was
\* built from.
C6_ThreadIdInjective ==
    /\ \A j, k \in DOMAIN runs :
          runs[j].thread_id = runs[k].thread_id
              => (runs[j].user_id = runs[k].user_id
                  /\ runs[j].sess_id = runs[k].sess_id)
    /\ \A k \in DOMAIN runs :
          Loaded(k) => (runs[k].values.current_user_id = runs[k].user_id
                        /\ runs[k].values.current_session_id = runs[k].sess_id)

NoDash(str) == \A i \in DOMAIN str : str[i] # Dash

\* the thread identifier is A-B with A and B non-empty and free of '-'
PlainThread(k) ==
    /\ runs[k].user_id # <<>> /\ NoDash(runs[k].user_id)
    /\ runs[k].sess_id # <<>> /\ NoDash(runs[k].sess_id)

\* C7: for a thread identifier A-B with A and B non-empty and free of '-',
\* load-identity sets current_user_id to A and current_session_id to B.
C7_LoadRecoversPlain ==
    \A k \in DOMAIN runs :
        (Loaded(k) /\ PlainThread(k))
            => /\ runs[k].values.current_user_id = runs[k].user_id
               /\ runs[k].values.current_session_id = runs[k].sess_id

C7_Witness ==
    \E k \in DOMAIN runs :
        /\ Loaded(k) /\ PlainThread(k)
        /\ runs[k].thread_id = <<"a", Dash, "c">>
        /\ runs[k].values.current_session_id = <<"c">>

\* the thread identifier parses into exactly two non-empty components
ValidThreadId(thread_id) ==
    /\ Len(Split(thread_id)) = 2
    /\ \A i \in 1..2 : Split(thread_id)[i] # <<>>

\* C8: no step of the graph runs for a thread identifier that does not
\* parse into exactly two non-empty components, or for an empty message.
C8_InvalidRejected ==
    \A k \in DOMAIN runs :
        Loaded(k) => (ValidThreadId(runs[k].thread_id) /\ runs[k].input # "")

NotArtifact(m) == ~ (m.type = "tool" \/ (m.type = "ai" /\ m.tool_calls # <<>>))

\* C9: after the prune step the messages hold no tool-result message and
\* no assistant message with tool calls, and are exactly the other
\* messages of the sequence before the step, in their order.
C9_PruneRemovesArtifacts ==
    \A k \in DOMAIN runs :
        (LastStep(k) = "delete_tool_message_node" /\ runs[k].pc # "failed")
            => LET before == runs[k].prev.messages
                   after  == runs[k].values.messages
               IN /\ \A i \in DOMAIN after : NotArtifact(after[i])
                  /\ after = SelectSeq(before, NotArtifact)

\* the prune step removed a tool call and its result, and kept the rest
C9_Witness ==
    \E k \in DOMAIN runs :
        /\ LastStep(k) = "delete_tool_message_node"
        /\ \E i \in DOMAIN runs[k].prev.messages :
              runs[k].prev.messages[i].type = "tool"
        /\ \E i \in DOMAIN runs[k].prev.messages :
              runs[k].prev.messages[i].tool_calls # <<>>
        /\ Len(runs[k].values.messages) >= 3

\* the message sequence after one prune step on msgs
Pruned(msgs) ==
    Merge([EmptyValues EXCEPT !.messages = msgs],
          delete_tool_message_node([EmptyValues EXCEPT !.messages = msgs])).messages

\* the message sequences held by the turns and by the checkpoints
MessageSequences ==
    { runs[k].values.messages : k \in DOMAIN runs }
        \cup { runs[k].prev.messages : k \in DOMAIN runs }
        \cup { store[t].values.messages : t \in DOMAIN store }

\* C10: pruning an already pruned message sequence removes nothing.
C10_PruneIdempotent ==
    \A msgs \in MessageSequences :
        /\ Pruned(Pruned(msgs)) = Pruned(msgs)
        /\ ArtifactIds(Pruned(msgs)) = <<>>

\* a sequence with several artifacts between kept messages was pruned
C10_Witness ==
    \E msgs \in MessageSequences :
        /\ Len(msgs) - Len(Pruned(msgs)) >= 3
        /\ Len(Pruned(msgs)) >= 2

\* the compact step has just run in turn k (and did not raise)
Compacted(k) ==
    LastStep(k) = "summarize_conversation_node" /\ runs[k].pc # "failed"

\* the model calls of turn k made with model
CallsOf(k, model) ==
    { i \in DOMAIN runs[k].calls : runs[k].calls[i].model = model }

\* C11: when the token count of the messages is below the threshold, the
\* compact step makes no model call and leaves the messages, the summary
\* and the identity fields as they were.
C11_CompactNoOpBelowThreshold ==
    \A k \in DOMAIN runs :
        (Compacted(k)
         /\ count_tokens_approximately(runs[k].prev.messages) < 128000)
            => /\ runs[k].values = runs[k].prev
               /\ CallsOf(k, "qwen3_8b") = {}

\* the compact step ran below the threshold on a thread with history
C11_Witness ==
    \E k \in DOMAIN runs :
        /\ Compacted(k)
        /\ count_tokens_approximately(runs[k].prev.messages) < 128000
        /\ Len(runs[k].prev.messages) >= 3

\* the last n elements of seq (all of them when it has fewer)
LastN(seq, n) ==
    IF Len(seq) <= n THEN seq ELSE SubSeq(seq, Len(seq) - n + 1, Len(seq))

\* the compact step has just run in turn k on messages at the threshold
CompactedOver(k) ==
    /\ Compacted(k)
    /\ count_tokens_approximately(runs[k].prev.messages) >= 128000

\* C12 as claimed: at the threshold, after the compact step exactly the
\* last 2 messages remain and current_summary is non-empty, whatever the
\* summarizer answered.
C12_CompactKeepsLast2_NonEmptySummary ==
    \A k \in DOMAIN runs :
        CompactedOver(k)
            => /\ runs[k].values.messages = LastN(runs[k].prev.messages, 2)
               /\ runs[k].values.current_summary # ""

\* C12 amended: at the threshold, after the compact step exactly the last
\* 2 messages remain (all of them when there were fewer) and
\* current_summary is the content of the summarizer's response, so it is
\* non-empty whenever that content is.
C12_CompactKeepsLast2 ==
    \A k \in DOMAIN runs :
        CompactedOver(k)
            => /\ runs[k].values.messages = LastN(runs[k].prev.messages, 2)
               /\ CallsOf(k, "qwen3_8b") = {1}
               /\ runs[k].values.current_summary = runs[k].calls[1].content

\* compaction cut a sequence of three or more messages to its last two
\* and stored a non-empty summary
C12_Witness ==
    \E k \in DOMAIN runs :
        /\ CompactedOver(k)
        /\ Len(runs[k].prev.messages) >= 3
        /\ Len(runs[k].values.messages) = 2
        /\ runs[k].values.current_summary = "summary"

\* C13: when compaction runs in a turn on a thread whose persisted state
\* already held a summary, the summarization call is made with the
\* 'extend' instruction, which carries that summary.
C13_SummaryExtended ==
    \A k \in DOMAIN runs :
        \A i \in CallsOf(k, "qwen3_8b") :
            runs[k].found_summary # "" => runs[k].calls[i].instruction = "extend"

\* the generate step and the route after it have just run in turn k
Generated(k) == LastStep(k) = "should_continue"

\* C14: the route is invoke-tool exactly when the most recent message
\* carries a non-empty tool-call list and termination otherwise; routing
\* adds nothing to the state the generate step produced, and the turn
\* goes where the route says.
C14_RouterDecision ==
    \A k \in DOMAIN runs :
        Generated(k) =>
            LET r    == runs[k]
                last == Last(r.values.messages)
            IN /\ (Last(r.routed) = "tool_node") <=> (last.tool_calls # <<>>)
               /\ (Last(r.routed) = "END") <=> (last.tool_calls = <<>>)
               /\ r.error = "" => r.pc \in {Last(r.routed), "killed"}
               /\ Len(r.values.messages) = Len(r.prev.messages) + 1
               /\ r.thread_id \in DOMAIN store
               /\ store[r.thread_id].writer = k
                     => (store[r.thread_id].values = r.values
                         /\ store[r.thread_id].next = Last(r.routed))

\* both routes were taken in one turn: first to invoke-tool, then to END
C14_Witness ==
    \E k \in DOMAIN runs :
        /\ Generated(k)
        /\ runs[k].routed = <<"tool_node", "END">>
        /\ Last(runs[k].values.messages).tool_calls = <<>>

\* C16: a generate step appends exactly one assistant message, leaves the
\* messages that were there as they were, and leaves current_summary and
\* the identity fields unchanged.
C16_GenerateAppendsOne ==
    \A k \in DOMAIN runs :
        Generated(k) =>
            LET before == runs[k].prev
                after  == runs[k].values
            IN /\ Len(after.messages) = Len(before.messages) + 1
               /\ SubSeq(after.messages, 1, Len(before.messages)) = before.messages
               /\ Last(after.messages).type = "ai"
               /\ after.current_summary = before.current_summary
               /\ after.current_user_id = before.current_user_id
               /\ after.current_user_name = before.current_user_name
               /\ after.current_session_id = before.current_session_id

\* a generate step ran on a state with a summary and several messages
C16_Witness ==
    \E k \in DOMAIN runs :
        /\ Generated(k)
        /\ runs[k].prev.current_summary # ""
        /\ Len(runs[k].prev.messages) >= 2

\* the load step has just run in turn k
JustLoaded(k) == LastStep(k) = "runtime_load_node" /\ runs[k].pc # "failed"

\* C18: after the load-identity step current_summary is the empty string,
\* whatever summary the persisted state held, and the messages are as
\* they were.
C18_LoadResetsSummary ==
    \A k \in DOMAIN runs :
        JustLoaded(k) =>
            /\ runs[k].values.current_summary = ""
            /\ runs[k].values.messages = runs[k].prev.messages

\* the load step ran on a persisted state that held a summary
C18_Witness ==
    \E k \in DOMAIN runs :
        /\ JustLoaded(k)
        /\ runs[k].prev.current_summary = "summary"
        /\ runs[k].found_summary = "summary"
        /\ runs[k].values.current_summary = ""

HasToolCalls(m) == m.type = "ai" /\ Len(m.tool_calls) >= 1

\* C19: the invoke-tool step only ever runs on a state whose most recent
\* message is an assistant message with at least one tool-call request.
C19_ToolNodeOnToolCalls ==
    \A k \in DOMAIN runs :
        /\ runs[k].pc = "tool_node" => HasToolCalls(Last(runs[k].values.messages))
        /\ (LastStep(k) = "tool_node" /\ runs[k].pc = "failed")
              => HasToolCalls(Last(runs[k].values.messages))
        /\ (LastStep(k) = "tool_node" /\ runs[k].pc # "failed")
              => HasToolCalls(Last(runs[k].prev.messages))

\* the invoke-tool step ran in a turn on a thread that has history
C19_Witness ==
    \E k \in DOMAIN runs :
        /\ LastStep(k) = "tool_node"
        /\ runs[k].pc = "llm_call_node"
        /\ Len(runs[k].prev.messages) >= 4

\* the first call of the generate step in turn k, as a set of indices
FirstGenerate(k) ==
    { i \in CallsOf(k, "qwen3_8b_with_tools") :
        \A j \in CallsOf(k, "qwen3_8b_with_tools") : i <= j }

\* C20: at the first generate step of a turn the last message of the
\* prompt is the turn's incoming user message.
C20_InputIsLastOfPrompt ==
    \A k \in DOMAIN runs :
        \A i \in FirstGenerate(k) :
            LET prompt == runs[k].calls[i].prompt IN
            /\ prompt # <<>>
            /\ Last(prompt).type = "human"
            /\ Last(prompt).id = <<k, 1>>
            /\ Last(prompt).content = runs[k].input

\* the first generate step ran after compaction cut the history, on a
\* thread where an earlier turn was aborted
C20_Witness ==
    \E k \in DOMAIN runs :
        /\ FirstGenerate(k) # {}
        /\ CallsOf(k, "qwen3_8b") # {}
        /\ \E j \in DOMAIN runs :
              j < k /\ runs[j].thread_id = runs[k].thread_id
                    /\ runs[j].pc \in {"failed", "killed"}

RECURSIVE Joined(_)
\* the text the caller has received: the delivered fragments in order
Joined(frags) == IF frags = <<>> THEN "" ELSE Head(frags) \o Joined(Tail(frags))

\* turn k ended after exactly one tool round
OneToolRound(k) ==
    /\ runs[k].pc = "END"
    /\ runs[k].routed = <<"tool_node", "END">>

\* C15: in a turn with one tool round the text streamed to the caller is
\* exactly the content of the final assistant message; no fragment of the
\* summarization call or of a non-terminal generate call is delivered.
C15_StreamIsFinalAnswer ==
    \A k \in DOMAIN runs :
        OneToolRound(k) =>
            /\ Joined(runs[k].out) = Last(runs[k].values.messages).content
            /\ \A i \in DOMAIN runs[k].calls :
                  (runs[k].calls[i].model = "qwen3_8b"
                       /\ runs[k].calls[i].content # "")
                     => \A j \in DOMAIN runs[k].out :
                            runs[k].out[j] # runs[k].calls[i].content

\* C17: a turn ends exactly at the first generate step whose assistant
\* message carries no tool-call request; as long as a response requests a
\* tool the loop goes on to the invoke-tool step, the engine imposing no
\* cap on the number of rounds.
C17_LoopUntilNoToolCall ==
    \A k \in DOMAIN runs :
        LET r == runs[k] IN
        /\ (Generated(k) /\ r.pc # "killed")
              => IF Last(r.values.messages).tool_calls # <<>>
                 THEN r.pc = "tool_node"
                 ELSE r.pc = "END"
        /\ r.pc = "END"
              => /\ Generated(k)
                 /\ \A i \in 1..(Len(r.routed) - 1) : r.routed[i] = "tool_node"

====
